---- MODULE Spec2Model ----
(***************************************************************************)
(* Model of streamlit_app.py: the session's event list (add, clear, delete *)
(* by row number, the sorted "All Events" table, the per-day agenda) and   *)
(* the rule-based productivity score.                                      *)
(*                                                                         *)
(* One action is one run of the script, started by one user interaction    *)
(* (Streamlit reruns the whole script on every interaction, and a button   *)
(* is True only in the run its click started).  Text is a sequence of      *)
(* one-character strings, so that strip(), isoformat(), strftime() and     *)
(* fromisoformat() are modelled by what they do to the characters.         *)
(***************************************************************************)
EXTENDS Integers, Sequences, FiniteSets, TLC

VARIABLES
    events,       \* st.session_state.events: the list of event dicts
    adds,         \* history: how many events have been appended so far
    tie,          \* the order sort_values' unstable sort gives equal keys
    df,           \* the All Events table computed by the last run (line 96)
    df_day,       \* the agenda of the filter day computed by the last run
    filter_day,   \* the "View events for date" widget
    msg,          \* the status message the last run's handler showed
    run,          \* the interaction that started the last run, its inputs
    prev_events,  \* history: the list as it was when the last run started
    sliders,      \* the four sliders of the Prediction tab
    score,        \* the score shown by the last run, NoScore when none
    tips          \* the suggestions shown by the last run

storeVars == <<events, adds, tie, df, df_day, filter_day, msg, run, prev_events>>
predictVars == <<sliders, score, tips>>
vars == <<events, adds, tie, df, df_day, filter_day, msg, run, prev_events,
          sliders, score, tips>>

----------------------------------------------------------------------------
(* Bounds of the model *)

\* at most this many events are appended in one behaviour
MaxAdds == 3

----------------------------------------------------------------------------
(* Text *)

Whitespace == {" ", "\t", "\n"}

RECURSIVE lstrip(_)
lstrip(s) ==
    IF s = <<>> THEN <<>>
    ELSE IF Head(s) \in Whitespace THEN lstrip(Tail(s)) ELSE s

RECURSIVE rstrip(_)
rstrip(s) ==
    IF s = <<>> THEN <<>>
    ELSE IF s[Len(s)] \in Whitespace THEN rstrip(SubSeq(s, 1, Len(s) - 1)) ELSE s

\* mutant of strip: trailing whitespace is kept
strip_left_only(s) == lstrip(s)

\* str.strip(): leading and trailing whitespace removed, the inside kept
strip(s) == rstrip(lstrip(s))

DigitChars == <<"0", "1", "2", "3", "4", "5", "6", "7", "8", "9">>

DigitChar(d) == DigitChars[d + 1]

DigitValue(c) == CHOOSE d \in 0..9 : DigitChars[d + 1] = c

\* the decimal digits of n, zero-padded to width w (%02d, %04d)
RECURSIVE Pad(_, _)
Pad(n, w) ==
    IF w = 0 THEN <<>> ELSE Append(Pad(n \div 10, w - 1), DigitChar(n % 10))

\* int() of a string of decimal digits
RECURSIVE ParseInt(_)
ParseInt(s) ==
    IF s = <<>> THEN 0
    ELSE 10 * ParseInt(SubSeq(s, 1, Len(s) - 1)) + DigitValue(s[Len(s)])

----------------------------------------------------------------------------
(* Dates and times *)

\* date.isoformat(): YYYY-MM-DD
date_isoformat(d) ==
    Pad(d.year, 4) \o <<"-">> \o Pad(d.month, 2) \o <<"-">> \o Pad(d.day, 2)

\* time.strftime("%H:%M"): the seconds are not written
time_strftime(t) == Pad(t.hour, 2) \o <<":">> \o Pad(t.minute, 2)

\* datetime.combine(date, time)
datetime_combine(d, t) ==
    [year |-> d.year, month |-> d.month, day |-> d.day,
     hour |-> t.hour, minute |-> t.minute, second |-> t.second]

\* datetime.fromisoformat("YYYY-MM-DDTHH:MM:SS")
datetime_fromisoformat(s) ==
    [year |-> ParseInt(SubSeq(s, 1, 4)), month |-> ParseInt(SubSeq(s, 6, 7)),
     day |-> ParseInt(SubSeq(s, 9, 10)), hour |-> ParseInt(SubSeq(s, 12, 13)),
     minute |-> ParseInt(SubSeq(s, 15, 16)), second |-> ParseInt(SubSeq(s, 18, 19))]

\* the fields of a datetime, and the order of such tuples by their first
\* difference (used to state the claims)
DTTuple(dt) == <<dt.year, dt.month, dt.day, dt.hour, dt.minute, dt.second>>

RECURSIVE LexLess(_, _)
LexLess(a, b) ==
    IF a = <<>> THEN FALSE
    ELSE Head(a) < Head(b) \/ (Head(a) = Head(b) /\ LexLess(Tail(a), Tail(b)))

\* datetime.__lt__: by year, then month, day, hour, minute and second
DTLess(a, b) ==
    \/ a.year < b.year
    \/ a.year = b.year /\
          (\/ a.month < b.month
           \/ a.month = b.month /\
                 (\/ a.day < b.day
                  \/ a.day = b.day /\
                        (\/ a.hour < b.hour
                         \/ a.hour = b.hour /\
                               (\/ a.minute < b.minute
                                \/ a.minute = b.minute /\ a.second < b.second))))

----------------------------------------------------------------------------
(* The event list *)

\* add_event: the dict appended to st.session_state.events.  AddNo is a
\* history field (the number of the add call that created the event); the
\* program has no such column and nothing below reads it to decide anything.
add_event(title, event_date, event_time, duration_mins, notes, no) ==
    [Title |-> strip(title),
     Date |-> date_isoformat(event_date),
     Time |-> time_strftime(event_time),
     Duration |-> duration_mins,
     Notes |-> strip(notes),
     SortDT |-> datetime_combine(event_date, event_time),
     AddNo |-> no]

\* row i comes before row j in the sorted frame.  sort_values is called
\* without kind=, so pandas uses its default "quicksort", which is documented
\* as not stable: rows with equal SortDT come out in an order the library
\* does not specify.  That order is a fixed property of the build (the sort is
\* deterministic), held in tie: among equal keys the row whose position has
\* the smaller tie rank comes first.  The identity ranks are the stable order.
\* (numpy's quicksort leaves up to 17 rows with equal keys in place and
\* reorders longer runs; the lists of the model are short, and tie stands for
\* what the sort does to the long ones.)
Before(evs, i, j) ==
    \/ DTLess(evs[i].SortDT, evs[j].SortDT)
    \/ evs[i].SortDT = evs[j].SortDT /\ tie[i] < tie[j]

\* mutant of sort_values: the rows are left in the order of the list
sort_values_unsorted(evs) == evs

\* df.sort_values("SortDT"): the rows in ascending order of SortDT
sort_values(evs) ==
    LET ahead == [i \in 1..Len(evs) |->
                     Cardinality({j \in 1..Len(evs) : Before(evs, j, i)})]
    IN  [k \in 1..Len(evs) |-> evs[CHOOSE i \in 1..Len(evs) : ahead[i] = k - 1]]

\* .drop(columns=["SortDT"])
drop_SortDT(r) ==
    [Title |-> r.Title, Date |-> r.Date, Time |-> r.Time,
     Duration |-> r.Duration, Notes |-> r.Notes, AddNo |-> r.AddNo]

\* events_df(): the table of all events, sorted, without the SortDT column;
\* the empty frame when there are no events.  This is listAll().
events_df(evs) ==
    IF evs = <<>> THEN <<>>
    ELSE LET sorted == sort_values(evs)
         IN  [k \in 1..Len(sorted) |-> drop_SortDT(sorted[k])]

\* mutant of filter_by_day: the comparison with the day is lost
filter_by_day_unfiltered(frame, day) == frame

\* df[df["Date"] == filter_day.isoformat()].reset_index(drop=True): the rows
\* whose Date string equals the ISO string of the day, in the frame's order.
\* This is listForDate(day).
filter_by_day(frame, day) ==
    IF frame = <<>> THEN frame
    ELSE LET OnDay(r) == r.Date = date_isoformat(day)
         IN  SelectSeq(frame, OnDay)

\* mutant of drop_index: the row before the labelled one is dropped
drop_index_off_by_one(frame, idx) ==
    [k \in 1..(Len(frame) - 1) |-> IF k < idx THEN frame[k] ELSE frame[k + 1]]

\* df.drop(index=idx).reset_index(drop=True): the frame without the row
\* labelled idx (labels are 0-based, the frame was reset_index'ed); idx is
\* a label of the frame in every run of the script, see RunDelete
drop_index(frame, idx) ==
    [k \in 1..(Len(frame) - 1) |-> IF k <= idx THEN frame[k] ELSE frame[k + 1]]

\* the dict rebuilt from one row of the frame: SortDT is parsed back from the
\* Date and Time strings, with ":00" for the seconds
rebuilt_row(r) ==
    [Title |-> r.Title, Date |-> r.Date, Time |-> r.Time,
     Duration |-> r.Duration, Notes |-> r.Notes,
     SortDT |-> datetime_fromisoformat(r.Date \o <<"T">> \o r.Time \o <<":", "0", "0">>),
     AddNo |-> r.AddNo]

\* the del_btn handler: the new list is the sorted frame without row idx
rebuilt(frame, idx) ==
    LET df2 == drop_index(frame, idx)
    IN  [k \in 1..Len(df2) |-> rebuilt_row(df2[k])]

----------------------------------------------------------------------------
(* The productivity score *)

\* Numbers of the Prediction tab are fixed-point, in quarters (28 is 7.0):
\* the sliders give multiples of 0.5 and of 5, every intermediate value of
\* predict_productivity is then a multiple of 0.25 of small magnitude, and
\* the floating-point operations of the program are exact on those.
Quarters(n) == 4 * n

Max(a, b) == IF a >= b THEN a ELSE b

Min(a, b) == IF a <= b THEN a ELSE b

\* mutant of clamp: the value is passed through
clamp_unclamped(x, lo, hi) == x

\* clamp(x, lo, hi)
clamp(x, lo, hi) == Max(lo, Min(hi, x))

\* mutant of round: the fraction is cut off
round_floor(q) == q \div 4

\* int(round(x)) of a number given in quarters: Python 3's round() goes to
\* the nearest integer and, halfway between two integers, to the even one
round(q) ==
    LET floor == q \div 4
        frac == q % 4
    IN  IF frac < 2 THEN floor
        ELSE IF frac > 2 THEN floor + 1
        ELSE IF floor % 2 = 0 THEN floor ELSE floor + 1

\* mutant of raw_score: the workload term is added instead of subtracted
raw_score_workload_added(sleep_hours, focus_hours, workload_level, exercise_mins) ==
    Quarters(50)
    + (sleep_hours - Quarters(6)) * 6
    + (focus_hours - Quarters(3)) * 5
    + (workload_level - Quarters(3)) * 7
    + ((exercise_mins \div 10) * 3) \div 2

\* the sum of the five terms of the formula, unrounded, in quarters;
\* all four arguments are in quarters
raw_score(sleep_hours, focus_hours, workload_level, exercise_mins) ==
    Quarters(50)
    + (sleep_hours - Quarters(6)) * 6
    + (focus_hours - Quarters(3)) * 5
    - (workload_level - Quarters(3)) * 7
    + ((exercise_mins \div 10) * 3) \div 2

\* predict_productivity: an integer
predict_productivity(sleep_hours, focus_hours, workload_level, exercise_mins) ==
    clamp(round(raw_score(sleep_hours, focus_hours, workload_level, exercise_mins)),
          0, 100)

\* the band shown for a score (lines 185-190)
band(s) == IF s >= 80 THEN "success" ELSE IF s >= 60 THEN "warning" ELSE "error"

TipSleep == "Sleep at least 7 hours."
TipFocus == "Plan 1-2 deep work blocks (45-60 mins)."
TipWorkload == "Reduce tasks: pick top 3 priorities only."
TipExercise == "Add 15-20 mins walk or workout."
TipKeep == "Keep the same routine. You're on track!"

\* mutant of quick_suggestions: the sleep tip is given below 7 hours, the
\* figure its text names, instead of below 6.5
quick_suggestions_sleep7(sleep_hours, focus_hours, workload, exercise) ==
    LET t1 == IF sleep_hours < Quarters(7) THEN <<TipSleep>> ELSE <<>>
        t2 == IF focus_hours < Quarters(3) THEN Append(t1, TipFocus) ELSE t1
        t3 == IF workload > Quarters(3) THEN Append(t2, TipWorkload) ELSE t2
        t4 == IF exercise < Quarters(15) THEN Append(t3, TipExercise) ELSE t3
    IN  IF t4 = <<>> THEN <<TipKeep>> ELSE t4

\* the tips list (lines 193-203); 6.5 is 26 quarters
quick_suggestions(sleep_hours, focus_hours, workload, exercise) ==
    LET t1 == IF sleep_hours < 26 THEN <<TipSleep>> ELSE <<>>
        t2 == IF focus_hours < Quarters(3) THEN Append(t1, TipFocus) ELSE t1
        t3 == IF workload > Quarters(3) THEN Append(t2, TipWorkload) ELSE t2
        t4 == IF exercise < Quarters(15) THEN Append(t3, TipExercise) ELSE t3
    IN  IF t4 = <<>> THEN <<TipKeep>> ELSE t4

\* the values the four sliders can take (lines 171-177), in quarters
SleepValues == {2 * k : k \in 0..20}
FocusValues == {2 * k : k \in 0..20}
WorkloadValues == {Quarters(k) : k \in 1..5}
ExerciseValues == {Quarters(5 * k) : k \in 0..24}

SliderInputs ==
    [sleep |-> SleepValues, focus |-> FocusValues,
     workload |-> WorkloadValues, exercise |-> ExerciseValues]

\* the sliders' value= arguments: 7.0, 4.0, 3, 20
SliderDefaults ==
    [sleep |-> Quarters(7), focus |-> Quarters(4),
     workload |-> Quarters(3), exercise |-> Quarters(20)]

----------------------------------------------------------------------------
(* Inputs *)

Day1 == [year |-> 2026, month |-> 10, day |-> 31]
Day2 == [year |-> 2026, month |-> 11, day |-> 1]

\* st.time_input exchanges its value as "HH:MM": the seconds are always 0
Time1 == [hour |-> 10, minute |-> 0, second |-> 0]
Time2 == [hour |-> 9, minute |-> 5, second |-> 0]

DayInputs == {Day1, Day2}

\* date.today(), the default of both date inputs
Today == Day1

\* min_value and max_value of the duration input (line 73)
MinDuration == 5
MaxDuration == 600

\* mutant of number_input_accepts: the input has no min_value and max_value
number_input_unbounded(v) == TRUE

\* st.number_input(min_value=5, max_value=600): the widget holds no value
\* outside its bounds, a number typed outside them never reaches the script
number_input_accepts(v) == MinDuration <= v /\ v <= MaxDuration

\* what the Add Event form can hold when a button is pressed: two events at
\* the same date and time, a later day at an earlier time of day, titles and
\* notes with whitespace around them, a title that is empty or only
\* whitespace, and durations typed at and just outside the bounds of the
\* duration input.
FormInputs ==
    { [title |-> <<"a">>, date |-> Day1, time |-> Time1,
       duration |-> 60, notes |-> <<>>],
      [title |-> <<" ", "a", " ", "b", "\t">>, date |-> Day1, time |-> Time1,
       duration |-> MinDuration, notes |-> <<"\n", "n", " ">>],
      [title |-> <<"a">>, date |-> Day2, time |-> Time2,
       duration |-> MaxDuration, notes |-> <<>>],
      [title |-> <<"a">>, date |-> Day1, time |-> Time1,
       duration |-> MinDuration - 1, notes |-> <<>>],
      [title |-> <<"a">>, date |-> Day2, time |-> Time2,
       duration |-> MaxDuration + 1, notes |-> <<>>],
      [title |-> <<>>, date |-> Day1, time |-> Time1,
       duration |-> 60, notes |-> <<"n">>],
      [title |-> <<" ", "\t">>, date |-> Day2, time |-> Time1,
       duration |-> 60, notes |-> <<>>] }

\* the form of a run that no Add click started
NoForm ==
    [title |-> <<>>, date |-> Today, time |-> Time1, duration |-> 60, notes |-> <<>>]

\* the orders the sort may give rows with equal keys: one rank per position
TieOrders ==
    {t \in [1..MaxAdds -> 1..MaxAdds] : \A i, j \in 1..MaxAdds : t[i] = t[j] => i = j}

----------------------------------------------------------------------------
(* The script *)

MsgNone == "none"
MsgNoTitle == "Please enter an event title."
MsgAdded == "Event added!"
MsgCleared == "All events cleared."
MsgDeleted == "Deleted!"

\* mutant of title_accepted: the title is tested as typed, without strip()
title_accepted_unstripped(title) == title # <<>>

\* the test of line 83: the title is accepted when something is left of it
\* after strip()
title_accepted(title) == strip(title) # <<>>

\* lines 96-103 of a run that works on the list evs and the filter day: the
\* All Events frame and the agenda of the day
Render(evs, day) ==
    LET frame == events_df(evs)
    IN  /\ df' = frame
        /\ df_day' = filter_by_day(frame, day)

\* st.session_state as far as the script uses it: whether it has the key
\* "events", and the list under that key.  A new session has no key.
NewSession == [has_events |-> FALSE, events |-> <<>>]

\* mutant of init_state: the list is set to [] without the test of the key
init_state_resets(session) == [has_events |-> TRUE, events |-> <<>>]

\* init_state: the empty list is stored only if the key is not there yet
init_state(session) ==
    IF session.has_events THEN session ELSE [has_events |-> TRUE, events |-> <<>>]

\* the list a run works on: line 53 calls init_state at the start of every
\* run, and every run after the first finds the key in the session state
session_events == init_state([has_events |-> TRUE, events |-> events]).events

\* the Prediction tab of a run in which Predict was not pressed shows no score
NoPrediction == score' = <<>> /\ tips' = <<>>

Init ==
    /\ events = init_state(NewSession).events
    /\ adds = 0
    /\ tie \in TieOrders
    /\ df = <<>>
    /\ df_day = <<>>
    /\ filter_day = Today
    /\ msg = MsgNone
    /\ run = [btn |-> "start", form |-> NoForm, idx |-> 0]
    /\ prev_events = <<>>
    /\ sliders = SliderDefaults
    /\ score = <<>>
    /\ tips = <<>>

\* a run started by "Add to Calendar" (lines 82-87), then the rendering
RunAdd(form) ==
    /\ adds < MaxAdds
    /\ number_input_accepts(form.duration)
    /\ IF title_accepted(form.title)
       THEN /\ events' = Append(session_events,
                           add_event(form.title, form.date, form.time,
                                     form.duration, form.notes, adds + 1))
            /\ adds' = adds + 1
            /\ msg' = MsgAdded
       ELSE /\ events' = session_events
            /\ adds' = adds
            /\ msg' = MsgNoTitle
    /\ Render(events', filter_day)
    /\ run' = [btn |-> "add", form |-> form, idx |-> 0]
    /\ prev_events' = events
    /\ NoPrediction
    /\ UNCHANGED <<tie, filter_day, sliders>>

\* mutant of RunClear: the empty list is not stored in the session state
RunClear_keeps_list ==
    /\ events' = session_events
    /\ msg' = MsgCleared
    /\ Render(events', filter_day)
    /\ run' = [btn |-> "clear", form |-> NoForm, idx |-> 0]
    /\ prev_events' = events
    /\ NoPrediction
    /\ UNCHANGED <<adds, tie, filter_day, sliders>>

\* a run started by "Clear All" (lines 89-91), then the rendering
RunClear ==
    /\ events' = <<>>
    /\ msg' = MsgCleared
    /\ Render(events', filter_day)
    /\ run' = [btn |-> "clear", form |-> NoForm, idx |-> 0]
    /\ prev_events' = events
    /\ NoPrediction
    /\ UNCHANGED <<adds, tie, filter_day, sliders>>

\* mutant of RunDelete: the row number is not bounded by max_value
RunDelete_unbounded(idx) ==
    /\ df # <<>>
    /\ session_events # <<>>
    /\ events' = rebuilt(events_df(session_events), idx)
    /\ msg' = MsgDeleted
    /\ Render(session_events, filter_day)
    /\ run' = [btn |-> "del", form |-> NoForm, idx |-> idx]
    /\ prev_events' = events
    /\ NoPrediction
    /\ UNCHANGED <<adds, tie, filter_day, sliders>>

\* a run started by "Delete Selected Row" (lines 96-161).  The button is on
\* the page only if the last run rendered a non-empty table.  This run
\* computes df from the list first, renders it, and only then rebuilds the
\* list without row idx; idx is bounded to 0..len(df)-1 by its widget.
RunDelete(idx) ==
    /\ df # <<>>
    /\ session_events # <<>>
    /\ idx \in 0..Max(Len(events_df(session_events)) - 1, 0)
    /\ events' = rebuilt(events_df(session_events), idx)
    /\ msg' = MsgDeleted
    /\ Render(session_events, filter_day)
    /\ run' = [btn |-> "del", form |-> NoForm, idx |-> idx]
    /\ prev_events' = events
    /\ NoPrediction
    /\ UNCHANGED <<adds, tie, filter_day, sliders>>

\* a click on a Delete button that a run which emptied the list left on the
\* page: this run finds df empty (line 118) and never reaches the button
RunDeleteEmpty ==
    /\ df # <<>>
    /\ session_events = <<>>
    /\ msg' = MsgNone
    /\ Render(session_events, filter_day)
    /\ run' = [btn |-> "del", form |-> NoForm, idx |-> 0]
    /\ prev_events' = events
    /\ NoPrediction
    /\ events' = session_events
    /\ UNCHANGED <<adds, tie, filter_day, sliders>>

\* mutant of RunView: the listing sorts the session's list in place
RunView_sorts_in_place(day) ==
    /\ filter_day' = day
    /\ msg' = MsgNone
    /\ Render(session_events, day)
    /\ run' = [btn |-> "none", form |-> NoForm, idx |-> 0]
    /\ prev_events' = events
    /\ NoPrediction
    /\ events' = sort_values(session_events)
    /\ UNCHANGED <<adds, tie, sliders>>

\* a run with no button pressed: the filter day was set (or any other
\* widget was touched and the day is the same)
RunView(day) ==
    /\ filter_day' = day
    /\ msg' = MsgNone
    /\ Render(session_events, day)
    /\ run' = [btn |-> "none", form |-> NoForm, idx |-> 0]
    /\ prev_events' = events
    /\ NoPrediction
    /\ events' = session_events
    /\ UNCHANGED <<adds, tie, sliders>>

\* a run started by a move of one slider to another of its values: no
\* button is pressed
RunSlider(f, v) ==
    /\ v \in SliderInputs[f]
    /\ v # sliders[f]
    /\ sliders' = [sliders EXCEPT ![f] = v]
    /\ msg' = MsgNone
    /\ Render(session_events, filter_day)
    /\ run' = [btn |-> "slider", form |-> NoForm, idx |-> 0]
    /\ prev_events' = events
    /\ NoPrediction
    /\ events' = session_events
    /\ UNCHANGED <<adds, tie, filter_day>>

\* a run started by "Predict Score" (lines 179-206)
RunPredict ==
    /\ score' = <<predict_productivity(sliders.sleep, sliders.focus,
                                       sliders.workload, sliders.exercise)>>
    /\ tips' = quick_suggestions(sliders.sleep, sliders.focus,
                                 sliders.workload, sliders.exercise)
    /\ msg' = MsgNone
    /\ Render(session_events, filter_day)
    /\ run' = [btn |-> "predict", form |-> NoForm, idx |-> 0]
    /\ prev_events' = events
    /\ events' = session_events
    /\ UNCHANGED <<adds, tie, filter_day, sliders>>

\* the Scheduler: every interaction but the sliders
Next ==
    \/ \E form \in FormInputs : RunAdd(form)
    \/ RunClear
    \/ \E idx \in 0..MaxAdds : RunDelete(idx)
    \/ RunDeleteEmpty
    \/ \E day \in DayInputs : RunView(day)
    \/ RunPredict

Spec == Init /\ [][Next]_vars

\* the Prediction tab on its whole input domain: the sliders stand anywhere
\* (the user has moved them), the event list is as at the start of a session
InitPredict ==
    /\ events = init_state(NewSession).events
    /\ adds = 0
    /\ tie = [i \in 1..MaxAdds |-> i]
    /\ df = <<>>
    /\ df_day = <<>>
    /\ filter_day = Today
    /\ msg = MsgNone
    /\ run = [btn |-> "none", form |-> NoForm, idx |-> 0]
    /\ prev_events = <<>>
    /\ sliders \in [sleep : SleepValues, focus : FocusValues,
                    workload : WorkloadValues, exercise : ExerciseValues]
    /\ score = <<>>
    /\ tips = <<>>

NextPredict ==
    \/ \E f \in DOMAIN SliderInputs : \E v \in SliderInputs[f] : RunSlider(f, v)
    \/ RunPredict

SpecPredict == InitPredict /\ [][NextPredict]_vars

\* the Scheduler together with moves of a slider of the Prediction tab: the
\* sleep slider goes between its default and the next step (0.5 hours are 2
\* quarters)
NextSession ==
    \/ Next
    \/ \E v \in {SliderDefaults.sleep, SliderDefaults.sleep + 2} : RunSlider("sleep", v)

SpecSession == Init /\ [][NextSession]_vars

----------------------------------------------------------------------------
(* What the claims speak of *)

\* listAll(): the listing of the list as it is now, and as it was when the
\* last run started
listAll == events_df(events)
listAllBefore == events_df(prev_events)

\* count()
count == Len(events)
countBefore == Len(prev_events)

\* a sequence without its element at the 0-based position i
WithoutAt(seq, i) == SubSeq(seq, 1, i) \o SubSeq(seq, i + 2, Len(seq))

\* the last run processed a delete of a row / an accepted add / a clear
Deleted == run.btn = "del" /\ msg = MsgDeleted
Added == run.btn = "add" /\ msg = MsgAdded
Cleared == run.btn = "clear"

\* the tie order under which the sort is stable
StableTie == \A i \in 1..MaxAdds : tie[i] = i

\* t is s without its leading and trailing whitespace
IsTrimOf(t, s) ==
    \E i \in 1..(Len(s) + 1) : \E j \in 0..Len(s) :
        /\ t = SubSeq(s, i, j)
        /\ \A k \in 1..(i - 1) : s[k] \in Whitespace
        /\ \A k \in (j + 1)..Len(s) : s[k] \in Whitespace
        /\ t # <<>> => t[1] \notin Whitespace /\ t[Len(t)] \notin Whitespace

\* the text is empty or all whitespace
IsBlank(s) == \A k \in 1..Len(s) : s[k] \in Whitespace

\* the row shows the calendar date d as YYYY-MM-DD
ShowsDate(r, d) ==
    /\ Len(r.Date) = 10
    /\ r.Date[5] = "-" /\ r.Date[8] = "-"
    /\ ParseInt(SubSeq(r.Date, 1, 4)) = d.year
    /\ ParseInt(SubSeq(r.Date, 6, 7)) = d.month
    /\ ParseInt(SubSeq(r.Date, 9, 10)) = d.day

\* the row shows the time of day t as HH:MM
ShowsTime(r, t) ==
    /\ Len(r.Time) = 5
    /\ r.Time[3] = ":"
    /\ ParseInt(SubSeq(r.Time, 1, 2)) = t.hour
    /\ ParseInt(SubSeq(r.Time, 4, 5)) = t.minute

\* the (date, time) a row shows, as numbers
RowKey(r) ==
    <<ParseInt(SubSeq(r.Date, 1, 4)), ParseInt(SubSeq(r.Date, 6, 7)),
      ParseInt(SubSeq(r.Date, 9, 10)), ParseInt(SubSeq(r.Time, 1, 2)),
      ParseInt(SubSeq(r.Time, 4, 5))>>

----------------------------------------------------------------------------
(* C1 *)

\* C1 (as claimed): after a delete of row i the listing is the listing from
\* before the call without its element i, every surviving event unchanged
\* and in the same relative order, and the count is one less.
C1_DeleteRemovesRowI ==
    Deleted =>
        /\ listAll = WithoutAt(listAllBefore, run.idx)
        /\ count = countBefore - 1

\* the part of C1 that the unstable sort leaves standing: with a stable tie
\* order the listing after the delete is the old one without row i
C1_HoldsWhenSortIsStable == StableTie => C1_DeleteRemovesRowI

C1_Reached == Deleted /\ count >= 2

----------------------------------------------------------------------------
(* C5 *)

\* C5 (as claimed): in the listing, two events with the same date and the
\* same time stand in the order in which they were added.
C5_TiesInAddOrder ==
    \A i, j \in 1..Len(listAll) :
        (i < j /\ RowKey(listAll[i]) = RowKey(listAll[j]))
            => listAll[i].AddNo < listAll[j].AddNo

----------------------------------------------------------------------------
(* C2 *)

\* C2 (as claimed): after an accepted add the listing has an event with
\* exactly the title, date, time, duration and notes that were passed, and
\* the count is one more.
C2_AddListsFieldsAsPassed ==
    Added =>
        /\ \E k \in 1..Len(listAll) :
              /\ listAll[k].Title = run.form.title
              /\ ShowsDate(listAll[k], run.form.date)
              /\ ShowsTime(listAll[k], run.form.time)
              /\ listAll[k].Duration = run.form.duration
              /\ listAll[k].Notes = run.form.notes
        /\ count = countBefore + 1

\* C2 (amended): after an accepted add the listing has an event whose title
\* and notes are the passed texts without their leading and trailing
\* whitespace and whose date, time and duration are the passed ones, and the
\* count is one more.
C2_AddListsTrimmedFields ==
    Added =>
        /\ \E k \in 1..Len(listAll) :
              /\ IsTrimOf(listAll[k].Title, run.form.title)
              /\ ShowsDate(listAll[k], run.form.date)
              /\ ShowsTime(listAll[k], run.form.time)
              /\ listAll[k].Duration = run.form.duration
              /\ IsTrimOf(listAll[k].Notes, run.form.notes)
        /\ count = countBefore + 1

\* an event whose title and notes had whitespace around them was added to a
\* list that already held an event
C2_Reached ==
    /\ Added
    /\ run.form.title # strip(run.form.title)
    /\ run.form.notes # strip(run.form.notes)
    /\ countBefore >= 1

----------------------------------------------------------------------------
(* C3 *)

\* C3: an add with a title that is empty or only whitespace shows the
\* validation error and leaves the list as it was: same events, same count.
C3_BlankTitleRejected ==
    (run.btn = "add" /\ IsBlank(run.form.title)) =>
        /\ msg = MsgNoTitle
        /\ events = prev_events
        /\ count = countBefore

\* an add with a whitespace-only title was processed on a non-empty list
C3_Reached ==
    /\ run.btn = "add"
    /\ run.form.title # <<>>
    /\ IsBlank(run.form.title)
    /\ prev_events # <<>>

----------------------------------------------------------------------------
(* C4 *)

\* C4: the listing is sorted non-decreasing by (date, time): no event shows
\* a (date, time) smaller than that of the event listed just before it.
C4_ListAllSorted ==
    \A k \in 1..(Len(listAll) - 1) :
        ~ LexLess(RowKey(listAll[k + 1]), RowKey(listAll[k]))

\* only adds so far, and the list holds a later event before an earlier one
C4_Reached ==
    /\ count = adds
    /\ \E i, j \in 1..count : i < j /\ DTLess(events[j].SortDT, events[i].SortDT)

----------------------------------------------------------------------------
(* C6 *)

\* the rows of frame that show the day, as positions in the frame
PositionsOfDay(frame, day) == {k \in 1..Len(frame) : ShowsDate(frame[k], day)}

\* the n-th smallest element of a set of numbers
NthOf(S, n) == CHOOSE x \in S : Cardinality({y \in S : y < x}) = n - 1

\* sel is the subsequence of frame made of the rows that show the day, in
\* the frame's order: none is missing, none of another day is in it
IsDaySubsequence(sel, frame, day) ==
    /\ Len(sel) = Cardinality(PositionsOfDay(frame, day))
    /\ \A n \in 1..Len(sel) : sel[n] = frame[NthOf(PositionsOfDay(frame, day), n)]

\* C6: for every day, the agenda of the day is the subsequence of the
\* listing made of the events of that day, in the same order; this holds of
\* the listing of the list and of the two tables a run renders.
C6_AgendaIsDaySubsequence ==
    /\ \A day \in DayInputs :
          IsDaySubsequence(filter_by_day(listAll, day), listAll, day)
    /\ IsDaySubsequence(df_day, df, filter_day)

\* the rendered table has events of the filter day and of another day
C6_Reached ==
    /\ Len(df) = MaxAdds
    /\ Len(df_day) >= 2
    /\ Len(df_day) < Len(df)
    /\ ShowsDate(df[Len(df)], filter_day)
    /\ ~ ShowsDate(df[1], filter_day)

----------------------------------------------------------------------------
(* C7 *)

\* the messages with which the scheduler reports an error (st.error)
ErrorMsgs == {MsgNoTitle}

----------------------------------------------------------------------------
(* C8 *)

\* C8: Clear All can always be pressed, and after it the list is empty, the
\* count is 0 and the listing is empty, whatever the list held before.
C8_ClearEmpties ==
    /\ ENABLED RunClear
    /\ Cleared => (events = <<>> /\ count = 0 /\ listAll = <<>> /\ msg = MsgCleared)

\* a clear was processed on a list of the largest size
C8_Reached == Cleared /\ countBefore = MaxAdds

----------------------------------------------------------------------------
(* C9 *)

\* C9: for every input in the documented ranges the score is an integer
\* between 0 and 100.
C9_ScoreInRange ==
    score # <<>> => (score[1] \in Int /\ 0 <= score[1] /\ score[1] <= 100)

\* the score was computed for the inputs whose unclamped sum is largest
C9_Reached ==
    /\ score # <<>>
    /\ sliders = [sleep |-> 40, focus |-> 40, workload |-> 4, exercise |-> 480]
    /\ score[1] = 100

----------------------------------------------------------------------------
(* C10 *)

\* four times the value of the formula for the sliders: sleep and focus in
\* hours, the workload level and the minutes of exercise are a quarter of
\* the slider values
FormulaTimes4 ==
    200 + 6 * (sliders.sleep - 24) + 5 * (sliders.focus - 12)
        - 7 * (sliders.workload - 12) + (3 * sliders.exercise) \div 20

\* n is an integer nearest to the value of the formula
IsNearest(n) == 4 * n - FormulaTimes4 <= 2 /\ FormulaTimes4 - 4 * n <= 2

\* the sliders stand at these hours of sleep and focus, level and minutes
SlidersAt(sl, fo, wo, ex) ==
    sliders = [sleep |-> 4 * sl, focus |-> 4 * fo, workload |-> 4 * wo,
               exercise |-> 4 * ex]

\* C10: the score is the value of the formula rounded to a nearest integer
\* and then clamped to [0, 100]; predict(7,4,3,20) = 64, predict(0,0,5,0) = 0
\* and predict(10,10,1,120) = 100.
C10_ScoreIsFormula ==
    score # <<>> =>
        /\ \E n \in -100..200 :
              /\ IsNearest(n)
              /\ score[1] = (IF n < 0 THEN 0 ELSE IF n > 100 THEN 100 ELSE n)
        /\ SlidersAt(7, 4, 3, 20) => score[1] = 64
        /\ SlidersAt(0, 0, 5, 0) => score[1] = 0
        /\ SlidersAt(10, 10, 1, 120) => score[1] = 100

\* the score was computed for a value of the formula that is not an integer
\* and lies strictly inside the range: 7.5, 4.5, 3, 25 gives 70.25
C10_Reached ==
    /\ score # <<>>
    /\ FormulaTimes4 % 4 # 0
    /\ 0 < score[1] /\ score[1] < 100

----------------------------------------------------------------------------
(* C11 *)

\* the tip is one of the tips shown
Shown(tip) == \E k \in 1..Len(tips) : tips[k] = tip

\* where a shown tip stands in the list
PlaceOf(tip) == CHOOSE k \in 1..Len(tips) : tips[k] = tip

\* the four threshold tips in their fixed order
ThresholdTips == <<TipSleep, TipFocus, TipWorkload, TipExercise>>

\* the conditions of the four tips on the sliders (in quarters: 6.5 hours
\* are 26, 3 hours 12, level 3 is 12, 15 minutes are 60)
TipDue(tip) ==
    CASE tip = TipSleep -> sliders.sleep < 26
      [] tip = TipFocus -> sliders.focus < 12
      [] tip = TipWorkload -> sliders.workload > 12
      [] tip = TipExercise -> sliders.exercise < 60

\* C11: when a prediction is shown, each of the four threshold tips is in
\* the list exactly if its condition holds, the tips stand in the order
\* sleep, focus, workload, exercise, with none twice; the list is the single
\* "Keep the same routine" tip exactly if no condition holds, so it is never
\* empty and that tip never stands with another.
C11_TipsFollowThresholds ==
    score # <<>> =>
        /\ tips # <<>>
        /\ \A a \in 1..4 : Shown(ThresholdTips[a]) <=> TipDue(ThresholdTips[a])
        /\ \A a, b \in 1..4 :
              (a < b /\ Shown(ThresholdTips[a]) /\ Shown(ThresholdTips[b]))
                  => PlaceOf(ThresholdTips[a]) < PlaceOf(ThresholdTips[b])
        /\ \A k, l \in 1..Len(tips) : tips[k] = tips[l] => k = l
        /\ \A k \in 1..Len(tips) :
              tips[k] = TipKeep \/ \E a \in 1..4 : tips[k] = ThresholdTips[a]
        /\ Shown(TipKeep) <=> (\A a \in 1..4 : ~ TipDue(ThresholdTips[a]))
        /\ Shown(TipKeep) => tips = <<TipKeep>>

\* predict(0, 0, 5, 0): all four tips are shown
C11_Reached ==
    /\ score # <<>>
    /\ SlidersAt(0, 0, 5, 0)
    /\ Len(tips) = 4

----------------------------------------------------------------------------
(* C12 *)

\* C12: a run that only lists (no add, clear or delete: listAll at line 96,
\* listForDate at line 101) leaves the list as it was, events and order; the
\* listing it returns is the listing of that list, and it is the same
\* listing as the one of the run before unless that run went on to delete.
C12_ListingsArePureReads ==
    [][ run'.btn \in {"none", "slider", "predict"} =>
            /\ events' = events
            /\ df' = events_df(events)
            /\ df_day' = filter_by_day(events_df(events), filter_day')
            /\ msg # MsgDeleted => df' = df ]_vars

\* a listing run on a list that is not in sorted order, with the agenda of
\* a day other than the default one
C12_Reached ==
    /\ run.btn = "none"
    /\ filter_day # Today
    /\ events = prev_events
    /\ \E i, j \in 1..count : i < j /\ DTLess(events[j].SortDT, events[i].SortDT)

----------------------------------------------------------------------------
(* C13 *)

\* C13: every event of the list has a duration that is an integer from 5 to
\* 600, after any sequence of adds, deletes and clears.
C13_DurationInRange ==
    \A k \in 1..count :
        events[k].Duration \in Int /\ 5 <= events[k].Duration /\ events[k].Duration <= 600

\* a delete left a rebuilt list that holds an event of 5 and one of 600
\* minutes
C13_Reached ==
    /\ Deleted
    /\ \E k \in 1..count : events[k].Duration = 5
    /\ \E k \in 1..count : events[k].Duration = 600

----------------------------------------------------------------------------
(* C14 *)

\* the event of the list and the row of a listing show the same title,
\* date, time, duration and notes and come from the same add
SameEvent(e, r) ==
    /\ e.Title = r.Title /\ e.Date = r.Date /\ e.Time = r.Time
    /\ e.Duration = r.Duration /\ e.Notes = r.Notes /\ e.AddNo = r.AddNo

\* C14: after a delete of row i the list itself is the listing from before
\* the call without its position i, in that order; so the list is sorted
\* non-decreasing by (date, time), and the sort key of every event is the
\* date-time that its stored date and time spell, at second 0.
C14_ListIsListingWithoutRowI ==
    Deleted =>
        /\ count = Len(listAllBefore) - 1
        /\ \A k \in 1..count :
              SameEvent(events[k], WithoutAt(listAllBefore, run.idx)[k])
        /\ \A k \in 1..(count - 1) : ~ DTLess(events[k + 1].SortDT, events[k].SortDT)
        /\ \A k \in 1..count : DTTuple(events[k].SortDT) = RowKey(events[k]) \o <<0>>

\* a row other than the first was deleted from a list that was not in sorted
\* order, and two events are left
C14_Reached ==
    /\ Deleted
    /\ run.idx >= 1
    /\ count >= 2
    /\ \E i, j \in 1..countBefore :
          i < j /\ DTLess(prev_events[j].SortDT, prev_events[i].SortDT)

----------------------------------------------------------------------------
(* C15 *)

\* C15: the list is empty when the session starts, and only an accepted add,
\* a clear or a delete changes it: a run started by anything else (the
\* filter day, a slider, Predict, the row number, a rerun) leaves it as it
\* was, and no run starts from a list that init_state has reset: an add
\* appends to the list as it was.
C15_OnlyAddClearDeleteChange ==
    /\ run.btn = "start" => events = <<>>
    /\ run.btn \notin {"start", "add", "clear", "del"} => events = prev_events
    /\ events # prev_events => (Added \/ Cleared \/ Deleted)
    /\ Added => (count = countBefore + 1 /\ SubSeq(events, 1, countBefore) = prev_events)

\* a slider was moved while the list held the largest number of events
C15_Reached ==
    /\ run.btn = "slider"
    /\ sliders # SliderDefaults
    /\ count = MaxAdds
    /\ count = countBefore

----------------------------------------------------------------------------
(* C16 *)

\* the events of a listing that show the same date and time stand in the
\* order of their add calls
TiesInAddOrderIn(frame) ==
    \A i, j \in 1..Len(frame) :
        (i < j /\ RowKey(frame[i]) = RowKey(frame[j])) => frame[i].AddNo < frame[j].AddNo

\* C16 (as claimed): once events have been removed (by a delete and its
\* rebuild of the list, or by a clear), and whatever was added since, two
\* events of the list with the same date and time are still listed in the
\* order of their add calls; a delete does not swap two that survive it.
C16_AddOrderKeptAcrossDeletes ==
    /\ count < adds => TiesInAddOrderIn(listAll)
    /\ Deleted =>
          \A i, j \in 1..Len(listAll) :
              (i < j /\ RowKey(listAll[i]) = RowKey(listAll[j])) =>
                  \E k, l \in 1..Len(listAllBefore) :
                      /\ k < l
                      /\ listAllBefore[k] = listAll[i]
                      /\ listAllBefore[l] = listAll[j]

\* with a stable tie order the rebuild loses nothing: C16 holds
C16_HoldsWhenSortIsStable == StableTie => C16_AddOrderKeptAcrossDeletes

----------------------------------------------------------------------------
(* C17 *)

\* C17 (as claimed): at the end of a run that processed an add, a clear or a
\* delete, the All Events table and the agenda of the filter day that the run
\* rendered are those of the list as it is after the operation.
C17_RenderedTablesAreCurrent ==
    (Added \/ Cleared \/ Deleted) =>
        /\ df = listAll
        /\ df_day = filter_by_day(listAll, filter_day)

\* the part of C17 that holds: the tables rendered by a run that processed
\* an add or a clear are those of the list after it
C17_CurrentAfterAddAndClear ==
    (Added \/ Cleared) =>
        /\ df = listAll
        /\ df_day = filter_by_day(listAll, filter_day)

\* what the run of a delete renders: the tables of the list from before the
\* delete, the deleted row among them
C17_StaleAfterDelete ==
    Deleted =>
        /\ df = listAllBefore
        /\ Len(df) = count + 1
        /\ df_day = filter_by_day(listAllBefore, filter_day)

\* C17 as claimed, for a sort that is stable: the tables are stale all the
\* same, so the failure is not that of C5
C17_AlsoFailsWhenSortIsStable == StableTie => C17_RenderedTablesAreCurrent

----------------------------------------------------------------------------
(* C18 *)

\* the score of the sliders with one of them at another value
ScoreWith(f, v) ==
    LET s == [sliders EXCEPT ![f] = v]
    IN  predict_productivity(s.sleep, s.focus, s.workload, s.exercise)

\* the values of a slider above the one it stands at
Above(f) == {v \in SliderInputs[f] : v > sliders[f]}

\* C18: with the other three inputs held, the score does not decrease when
\* sleep, focus or exercise is raised to any larger value of its range, and
\* does not increase when the workload is raised (rounding and clamping
\* included).
C18_ScoreIsMonotone ==
    score # <<>> =>
        /\ \A f \in {"sleep", "focus", "exercise"} :
              \A v \in Above(f) : score[1] <= ScoreWith(f, v)
        /\ \A v \in Above("workload") : ScoreWith("workload", v) <= score[1]

\* a score was computed inside the range, where each input moves it: one
\* step more of sleep or of focus raises it, one level more of workload
\* lowers it, and 5 minutes more of exercise (0.75 of a point) leave the
\* rounded score of 7, 4, 3, 30 (65.5, rounded to 66) where it is while 10
\* minutes more raise it
C18_Reached ==
    /\ score # <<>>
    /\ SlidersAt(7, 4, 3, 30)
    /\ score[1] = 66
    /\ score[1] < ScoreWith("sleep", sliders.sleep + 2)
    /\ score[1] < ScoreWith("focus", sliders.focus + 2)
    /\ score[1] > ScoreWith("workload", sliders.workload + 4)
    /\ score[1] = ScoreWith("exercise", sliders.exercise + 20)
    /\ score[1] < ScoreWith("exercise", sliders.exercise + 40)

----------------------------------------------------------------------------
(* C19 *)

\* C19 (as claimed): whenever the only tip shown is "Keep the same routine.
\* You're on track!" (none of the four threshold tips fires), the score is
\* at least 60: the tip is never shown with the high-risk band.
C19_OnTrackTipNotWithHighRisk ==
    (score # <<>> /\ tips = <<TipKeep>>) => (score[1] >= 60 /\ band(score[1]) # "error")

\* what holds instead: with the "on track" tip alone the score is at least
\* 55, the score of 6.5, 3, 3, 15, where every input stands at its threshold
C19_OnTrackTipScoreAtLeast55 ==
    (score # <<>> /\ tips = <<TipKeep>>) => score[1] >= 55

\* the "on track" tip is shown with the high-risk band
C19_OnTrackWithHighRiskShown ==
    /\ score # <<>>
    /\ tips = <<TipKeep>>
    /\ sliders = [sleep |-> 26, focus |-> 12, workload |-> 12, exercise |-> 60]
    /\ score[1] = 55
    /\ band(score[1]) = "error"

====
